---------------------------- MODULE Spec2Model ----------------------------
(***************************************************************************)
(* Model of the BLAST-based draft reconstruction of Plant-GEMs             *)
(* (src/blasting.py): select_genes filters the blastp records of every     *)
(* reference gene against five thresholds, drafting rewrites the gene      *)
(* rules of the reference reactions with the surviving subject genes.      *)
(*                                                                         *)
(* Text is a sequence of one-character strings, so that str.split,         *)
(* str.join and float() are computed character by character.  A Python     *)
(* float is the exact decimal m * 10^e; for the records and thresholds of  *)
(* the model the decimal and the binary64 computations agree.              *)
(***************************************************************************)
EXTENDS Integers, Sequences, FiniteSets, TLC

\* ------------------------------------------------------------------ text

Digits == <<"0", "1", "2", "3", "4", "5", "6", "7", "8", "9">>

IsDigit(c) == \E i \in 1..10 : Digits[i] = c

DigitVal(c) == (CHOOSE i \in 1..10 : Digits[i] = c) - 1

AllDigits(t) == \A i \in 1..Len(t) : IsDigit(t[i])

RECURSIVE DigitsVal(_)
\* the natural number a run of decimal digits denotes
DigitsVal(t) ==
    IF t = << >> THEN 0
    ELSE 10 * DigitsVal(SubSeq(t, 1, Len(t) - 1)) + DigitVal(t[Len(t)])

RECURSIVE Pow10(_)
Pow10(n) == IF n <= 0 THEN 1 ELSE 10 * Pow10(n - 1)

\* s starts with p at position i
MatchAt(s, p, i) ==
    /\ i + Len(p) - 1 <= Len(s)
    /\ \A k \in 1..Len(p) : s[i + k - 1] = p[k]

\* first position >= i where p occurs in s, 0 when there is none
FirstAt(s, p, i) ==
    LET hits == {k \in i..Len(s) : MatchAt(s, p, k)}
    IN  IF hits = {} THEN 0 ELSE CHOOSE k \in hits : \A h \in hits : k <= h

RECURSIVE Split(_, _)
\* str.split(sep): the pieces between the non-overlapping occurrences of
\* sep, scanned from the left; the text without sep is one piece
Split(s, sep) ==
    LET k == FirstAt(s, sep, 1)
    IN  IF k = 0 THEN <<s>>
        ELSE <<SubSeq(s, 1, k - 1)>> \o Split(SubSeq(s, k + Len(sep), Len(s)), sep)

RECURSIVE Join(_, _)
\* sep.join(parts)
Join(parts, sep) ==
    IF parts = << >> THEN << >>
    ELSE IF Len(parts) = 1 THEN parts[1]
    ELSE parts[1] \o sep \o Join(Tail(parts), sep)

\* --------------------------------------------------------------- numbers

RECURSIVE Norm(_, _)
\* one representation per value: no trailing zero in the mantissa
Norm(m, e) ==
    IF m = 0 THEN [m |-> 0, e |-> 0]
    ELSE IF m % 10 = 0 THEN Norm(m \div 10, e + 1)
    ELSE [m |-> m, e |-> e]

RECURSIVE NumDigits(_)
NumDigits(n) == IF n < 10 THEN 1 ELSE 1 + NumDigits(n \div 10)

\* the decimal order of magnitude of a positive number
Mag(a) == NumDigits(a.m) + a.e

Min(x, y) == IF x <= y THEN x ELSE y

\* a <= b for non-negative a, b
LeqPos(a, b) ==
    IF a.m = 0 THEN TRUE
    ELSE IF b.m = 0 THEN FALSE
    ELSE IF Mag(a) < Mag(b) THEN TRUE
    ELSE IF Mag(a) > Mag(b) THEN FALSE
    ELSE LET lo == Min(a.e, b.e)
         IN  a.m * Pow10(a.e - lo) <= b.m * Pow10(b.e - lo)

Neg(a) == [m |-> 0 - a.m, e |-> a.e]

\* a <= b
Leq(a, b) ==
    IF a.m < 0 /\ b.m < 0 THEN LeqPos(Neg(b), Neg(a))
    ELSE IF a.m < 0 THEN TRUE
    ELSE IF b.m < 0 THEN FALSE
    ELSE LeqPos(a, b)

Geq(a, b) == Leq(b, a)

Mul(a, b) == Norm(a.m * b.m, a.e + b.e)

Div100(a) == Norm(a.m, a.e - 2)

Sub(a, b) ==
    LET lo == Min(a.e, b.e)
    IN  Norm(a.m * Pow10(a.e - lo) - b.m * Pow10(b.e - lo), lo)

Add(a, b) == Sub(a, Neg(b))

Num(n) == Norm(n, 0)

\* float(t): [ok |-> FALSE] is Python's ValueError.  The grammar is
\* [-] digits [. digits] [e [-] digits] with a digit in the mantissa.
FloatOf(t) ==
    LET neg  == Len(t) > 0 /\ t[1] = "-"
        body == IF neg THEN Tail(t) ELSE t
        ps   == Split(body, <<"e">>)
        mant == Split(ps[1], <<".">>)
        ip   == mant[1]
        fp   == IF Len(mant) = 2 THEN mant[2] ELSE << >>
        ex   == IF Len(ps) = 2 THEN ps[2] ELSE << >>
        eneg == Len(ex) > 0 /\ ex[1] = "-"
        edig == IF eneg THEN Tail(ex) ELSE ex
        ok   == /\ Len(ps) <= 2
                /\ Len(mant) <= 2
                /\ AllDigits(ip) /\ AllDigits(fp)
                /\ Len(ip) + Len(fp) > 0
                /\ Len(ps) = 2 => (Len(edig) > 0 /\ AllDigits(edig))
        ev   == IF eneg THEN 0 - DigitsVal(edig) ELSE DigitsVal(edig)
        mv   == DigitsVal(ip \o fp)
    IN  IF ok
        THEN [ok |-> TRUE, v |-> Norm(IF neg THEN 0 - mv ELSE mv, ev - Len(fp))]
        ELSE [ok |-> FALSE, v |-> Num(0)]

\* ---------------------------------------------------------- select_genes

\* a field of a record after the conversion loop: a float, or the text
\* that float() refused
Txt(t) == [num |-> FALSE, txt |-> t, v |-> Num(0)]

Flt(v) == [num |-> TRUE, txt |-> << >>, v |-> v]

\* lines 131-136: split the line on "," and convert every field that
\* float() accepts
Convert(res) ==
    LET raw == Split(res, <<",">>)
    IN  [i \in 1..Len(raw) |->
            LET f == FloatOf(raw[i])
            IN  IF f.ok THEN Flt(f.v) ELSE Txt(raw[i])]

\* lines 137-150 for one record: "pass" (spl[2] is appended), "skip",
\* or the exception the first failing operation raises
CheckRecord(spl, identity, diff, e_val, coverage, bit_score) ==
    LET at(i)     == spl[i + 1]
        has(i)    == i + 1 <= Len(spl)
        len_query == <<Div100(Mul(at(1).v, Sub(Num(100), diff))),
                       Div100(Mul(at(1).v, Add(Num(100), diff)))>>
        min_align == Mul(Div100(coverage), at(1).v)
    IN  IF ~has(3) THEN "IndexError"
        ELSE IF ~at(1).num THEN "TypeError"
        ELSE IF ~has(6) THEN "IndexError"
        ELSE IF ~at(6).num THEN "TypeError"
        ELSE IF ~Geq(at(6).v, identity) THEN "skip"
        ELSE IF ~at(3).num THEN "TypeError"
        ELSE IF ~Geq(at(3).v, len_query[1]) THEN "skip"
        ELSE IF ~Leq(at(3).v, len_query[2]) THEN "skip"
        ELSE IF ~at(4).num THEN "TypeError"
        ELSE IF ~Geq(at(4).v, min_align) THEN "skip"
        ELSE IF ~has(9) THEN "IndexError"
        ELSE IF ~at(9).num THEN "TypeError"
        ELSE IF ~Geq(at(9).v, bit_score) THEN "skip"
        ELSE IF ~at(8).num THEN "TypeError"
        ELSE IF ~Leq(at(8).v, e_val) THEN "skip"
        ELSE "pass"

\* the line of blast_res with the converted fields written into it, the
\* text of a converted field being lost
Stored_InPlace(res, spl) ==
    Join([k \in 1..Len(spl) |-> spl[k].txt], <<",">>)

\* lines 131-136: the line of blast_res once its fields are converted:
\* res is a str, split makes a new list spl and spl[i] = float(spl[i])
\* writes into that list
Stored(res, spl) == res

\* blast_res when the call is over
RecordsAfter(blast_res) ==
    [i \in 1..Len(blast_res) |->
        [key  |-> blast_res[i].key,
         recs |-> [j \in 1..Len(blast_res[i].recs) |->
                     Stored(blast_res[i].recs[j], Convert(blast_res[i].recs[j]))]]]

\* Append1 leaving out an identifier the list of the key holds already
Append1_NoDuplicates(dico, key, x) ==
    IF key \in DOMAIN dico
    THEN IF \E n \in 1..Len(dico[key]) : dico[key][n] = x
         THEN dico
         ELSE [dico EXCEPT ![key] = Append(@, x)]
    ELSE [k \in DOMAIN dico \cup {key} |-> IF k = key THEN <<x>> ELSE dico[k]]

\* dico_genes[key].append(x), or dico_genes[key] = [x] on KeyError
Append1(dico, key, x) ==
    IF key \in DOMAIN dico
    THEN [dico EXCEPT ![key] = Append(@, x)]
    ELSE [k \in DOMAIN dico \cup {key} |-> IF k = key THEN <<x>> ELSE dico[k]]

EmptyDict == [k \in {} |-> << >>]

RECURSIVE SelectLoop(_, _, _, _, _, _, _, _, _)
\* the two nested loops of lines 129-150 from record j of entry i on;
\* blast_res is the dictionary in its iteration order, a sequence of
\* [key, recs]
SelectLoop(blast_res, i, j, dico, identity, diff, e_val, coverage, bit_score) ==
    IF i > Len(blast_res) THEN [raised |-> "none", val |-> dico]
    ELSE IF j > Len(blast_res[i].recs)
    THEN SelectLoop(blast_res, i + 1, 1, dico, identity, diff, e_val, coverage, bit_score)
    ELSE LET spl == Convert(blast_res[i].recs[j])
             r   == CheckRecord(spl, identity, diff, e_val, coverage, bit_score)
         IN  IF r \in {"TypeError", "IndexError"}
             THEN [raised |-> r, val |-> EmptyDict]
             ELSE SelectLoop(blast_res, i, j + 1,
                             IF r = "pass"
                             THEN Append1(dico, blast_res[i].key, spl[3])
                             ELSE dico,
                             identity, diff, e_val, coverage, bit_score)

\* select_genes with dico_genes holding an empty list for every key of
\* blast_res from the start
select_genes_prefilled(blast_res, identity, diff, e_val, coverage, bit_score) ==
    SelectLoop(blast_res, 1, 1,
               [k \in {blast_res[i].key : i \in 1..Len(blast_res)} |-> << >>],
               identity, diff, e_val, coverage, bit_score)

\* select_genes(blast_res, identity, diff, e_val, coverage, bit_score):
\* the dictionary returned, or the exception that leaves the call
select_genes(blast_res, identity, diff, e_val, coverage, bit_score) ==
    SelectLoop(blast_res, 1, 1, EmptyDict, identity, diff, e_val, coverage, bit_score)

\* --------------------------------------------------------------- drafting

OR == <<" ", "o", "r", " ">>

AND == <<" ", "a", "n", "d", " ">>

\* dico_genes[gene]: the list, or Python's KeyError
GetItem(dico, gene) ==
    IF gene \in DOMAIN dico
    THEN [raised |-> "none", val |-> dico[gene]]
    ELSE [raised |-> "KeyError", val |-> << >>]

\* TryAdd with the matches put in front of to_add
TryAdd_Prepend(to_add, dico, gene) ==
    LET got == GetItem(dico, gene)
    IN  IF got.raised = "KeyError"
        THEN [raised |-> "none", val |-> to_add]
        ELSE [raised |-> "none", val |-> got.val \o to_add]

\* TryAdd without the except clause: the KeyError leaves the loop
TryAdd_NoExcept(to_add, dico, gene) ==
    LET got == GetItem(dico, gene)
    IN  IF got.raised = "KeyError"
        THEN [raised |-> "KeyError", val |-> to_add]
        ELSE [raised |-> "none", val |-> to_add \o got.val]

RECURSIVE AddNew(_, _, _)
\* to_add with those items of list from item k on that it does not hold yet
AddNew(to_add, list, k) ==
    IF k > Len(list) THEN to_add
    ELSE AddNew(IF \E n \in 1..Len(to_add) : to_add[n] = list[k]
                THEN to_add ELSE Append(to_add, list[k]),
                list, k + 1)

\* TryAdd adding an identifier only when to_add does not hold it yet
TryAdd_NoDuplicates(to_add, dico, gene) ==
    LET got == GetItem(dico, gene)
    IN  IF got.raised = "KeyError"
        THEN [raised |-> "none", val |-> to_add]
        ELSE [raised |-> "none", val |-> AddNew(to_add, got.val, 1)]

\* TryAdd keeping the reference gene itself when its list is empty
TryAdd_EmptyKeepsGene(to_add, dico, gene) ==
    LET got == GetItem(dico, gene)
    IN  IF got.raised = "KeyError"
        THEN [raised |-> "none", val |-> to_add]
        ELSE IF got.val = << >>
        THEN [raised |-> "none", val |-> Append(to_add, Txt(gene))]
        ELSE [raised |-> "none", val |-> to_add \o got.val]

\* lines 171-174: to_add += dico_genes[gene], a KeyError being passed over
TryAdd(to_add, dico, gene) ==
    LET got == GetItem(dico, gene)
    IN  IF got.raised = "KeyError"
        THEN [raised |-> "none", val |-> to_add]
        ELSE [raised |-> "none", val |-> to_add \o got.val]

RECURSIVE Lookups(_, _, _, _)
\* the loop of lines 170-174 from token i of to_search on
Lookups(to_search, i, dico, to_add) ==
    IF i > Len(to_search) THEN [raised |-> "none", val |-> to_add]
    ELSE LET r == TryAdd(to_add, dico, to_search[i])
         IN  IF r.raised # "none" THEN r
             ELSE Lookups(to_search, i + 1, dico, r.val)

\* " or ".join(to_add): the text, or the TypeError str.join raises on an
\* item that is not a str
JoinOr(to_add) ==
    IF \E k \in 1..Len(to_add) : to_add[k].num
    THEN [raised |-> "TypeError", rule |-> << >>]
    ELSE [raised |-> "none",
          rule   |-> Join([k \in 1..Len(to_add) |-> to_add[k].txt], OR)]

\* NewRule giving the empty rule as soon as one token has no match
NewRule_AllTokens(rule, dico) ==
    LET to_search == Split(rule, OR)
        found     == Lookups(to_search, 1, dico, << >>)
    IN  IF \E k \in 1..Len(to_search) : to_search[k] \notin DOMAIN dico
        THEN [raised |-> "none", rule |-> << >>]
        ELSE JoinOr(found.val)

RECURSIVE SplitEach(_, _, _)
\* the pieces of parts from piece k on, each split on sep
SplitEach(parts, sep, k) ==
    IF k > Len(parts) THEN << >>
    ELSE Split(parts[k], sep) \o SplitEach(parts, sep, k + 1)

\* NewRule splitting the rule on " and " as well as on " or "
NewRule_SplitAnd(rule, dico) ==
    LET to_search == SplitEach(Split(rule, OR), AND, 1)
        found     == Lookups(to_search, 1, dico, << >>)
    IN  IF found.raised # "none"
        THEN [raised |-> found.raised, rule |-> << >>]
        ELSE JoinOr(found.val)

\* lines 168-175 for one reaction: the new rule, or the exception
NewRule(rule, dico) ==
    LET to_search == Split(rule, OR)
        found     == Lookups(to_search, 1, dico, << >>)
    IN  IF found.raised # "none"
        THEN [raised |-> found.raised, rule |-> << >>]
        ELSE JoinOr(found.val)

\* x = reac: the reaction of the reference model itself
DeepCopy_SameObject(reac) == reac

\* copy.deepcopy(reac): a new object (obj is the identity of the object,
\* negative for the copies) with the attributes of reac
DeepCopy(reac) == [reac EXCEPT !.obj = 0 - reac.obj]

\* AddIfRule without the test of line 176
AddIfRule_Always(reactions, reac, string_reaction_rule) ==
    Append(reactions, [DeepCopy(reac) EXCEPT !.rule = string_reaction_rule])

\* lines 176-179: the copy of reac with the new rule is added when the
\* rule is not empty
AddIfRule(reactions, reac, string_reaction_rule) ==
    IF string_reaction_rule # << >>
    THEN Append(reactions, [DeepCopy(reac) EXCEPT !.rule = string_reaction_rule])
    ELSE reactions

RECURSIVE DraftLoop(_, _, _, _)
\* the loop of lines 167-179 from reaction i of the reference model on
DraftLoop(model, i, dico, reactions) ==
    IF i > Len(model) THEN [raised |-> "none", reactions |-> reactions]
    ELSE LET r == NewRule(model[i].rule, dico)
         IN  IF r.raised # "none"
             THEN [raised |-> r.raised, reactions |-> << >>]
             ELSE DraftLoop(model, i + 1, dico, AddIfRule(reactions, model[i], r.rule))

\* drafting(model, dico_genes, model_name): the reactions of the new
\* model, or the exception that leaves the call
drafting(model, dico) == DraftLoop(model, 1, dico, << >>)

\* the reactions of the reference model once the assignments of line 178
\* are done: an assignment to x.gene_reaction_rule is seen through every
\* reference to the object x
SetRules(model, reactions) ==
    [i \in 1..Len(model) |->
        IF \E k \in 1..Len(reactions) : reactions[k].obj = model[i].obj
        THEN [model[i] EXCEPT !.rule =
                reactions[CHOOSE k \in 1..Len(reactions) :
                            reactions[k].obj = model[i].obj].rule]
        ELSE model[i]]

\* the metabolites of a list of reactions: Model.add_reactions adds them
\* to the model with the reaction
MetabolitesOf(reactions) == UNION { reactions[k].mets : k \in 1..Len(reactions) }

\* new_model.add_metabolites(...) leaving the metabolites as they are
add_metabolites_nothing(metabolites, more) == metabolites

\* new_model.add_metabolites(model.metabolites)
add_metabolites(metabolites, more) == metabolites \cup more

\* ------------------------------------------------------- blastp records

\* the largest number of records of one reference gene
MaxRecords == 2

\* the ten fields of a record, in the order of blast_run's -outfmt:
\* qseqid qlen sseqid slen length nident pident score evalue bitscore
Rec(qseqid, qlen, sseqid, slen, length, nident, pident, score, evalue, bitscore) ==
    <<qseqid, qlen, sseqid, slen, length, nident, pident, score, evalue, bitscore>>

\* the line blastp prints for a record (-outfmt "10 delim=,")
Line(fields) == Join(fields, <<",">>)

G1 == <<"g", "1">>
G2 == <<"g", "2">>
G9 == <<"g", "9">>
S1 == <<"s", "1">>
S2 == <<"s", "2">>
S3 == <<"s", "3">>
X  == <<"x">>

T300 == <<"3", "0", "0">>
T290 == <<"2", "9", "0">>
T280 == <<"2", "8", "0">>
T270 == <<"2", "7", "0">>
T330 == <<"3", "3", "0">>
T331 == <<"3", "3", "1">>
T150 == <<"1", "5", "0">>
T200 == <<"2", "0", "0">>
T310 == <<"3", "1", "0">>
T400 == <<"4", "0", "0">>
T55  == <<"5", "5", ".", "0">>
T50  == <<"5", "0", ".", "0">>
T70  == <<"7", "0", ".", "0">>
E120 == <<"1", "e", "-", "1", "2", "0">>
E100 == <<"1", "e", "-", "1", "0", "0">>
E150 == <<"1", "e", "-", "1", "5", "0">>

\* a hit inside every loose threshold and outside every strict one
Base == Rec(G1, T300, S1, T290, T280, T150, T55, T200, E120, T310)

\* a hit exactly on every loose bound (lower end of the length window)
OnBounds == Rec(G1, T300, S1, T270, T270, T150, T50, T200, E100, T300)

\* a hit inside every strict threshold
Strong == Rec(G1, T300, S3, T300, T300, T150, T70, T200, E150, T400)

With(fields, i, t) == [fields EXCEPT ![i + 1] = t]

WellFormed ==
    { Line(Base),
      Line(With(Base, 2, S2)),
      Line(OnBounds),
      Line(With(OnBounds, 3, T330)),
      Line(With(OnBounds, 3, T331)),
      Line(Strong),
      Line(With(Base, 2, <<"1", "2">>)),
      Line(With(Base, 2, <<"1", "e", "5">>)),
      Line(With(Base, 0, G2)),
      Line(With(Base, 7, X)) }

\* the fields the filter reads as numbers: qlen slen length pident evalue bitscore
Required == {1, 3, 4, 6, 8, 9}

\* a required field that float() refuses
NonNumeric == { Line(With(Base, i, X)) : i \in Required }

\* a field count other than ten
WrongCount ==
    { << >>,
      Line(SubSeq(Base, 1, 3)),
      Line(SubSeq(Base, 1, 9)),
      Line(Base \o <<X>>) }

Lines == WellFormed \cup NonNumeric \cup WrongCount

\* the records that may follow the first record of a gene
FollowLines == { Line(Base), Line(With(Base, 8, X)) }

RECURSIVE SeqsUpTo(_, _)
\* the sequences over S of length at most n
SeqsUpTo(S, n) ==
    IF n <= 0 THEN { << >> }
    ELSE LET shorter == SeqsUpTo(S, n - 1)
         IN  shorter \cup { Append(q, x) : q \in shorter, x \in S }

RecordLists ==
    { << >> } \cup
    { <<l>> \o rest : l \in Lines, rest \in SeqsUpTo(FollowLines, MaxRecords - 1) }

\* blast_res: one entry per gene of the reference model, in the order
\* blast_run fills the dictionary
ResultSets ==
    { <<[key |-> G1, recs |-> r], [key |-> G2, recs |-> r2]>> :
        r \in RecordLists, r2 \in {<< >>, <<Line(With(Base, 2, S2))>>} }

Dec(m, e) == Norm(m, e)

Loose ==
    [identity |-> Num(50), diff |-> Num(10), e_val |-> Dec(1, -100),
     coverage |-> Num(90), bit_score |-> Num(300)]

Strict ==
    [identity |-> Num(60), diff |-> Num(3), e_val |-> Dec(1, -130),
     coverage |-> Num(95), bit_score |-> Num(320)]

ThresholdNames == {"identity", "diff", "e_val", "coverage", "bit_score"}

\* the loose or the strict value of every threshold
Thresholds ==
    { [n \in ThresholdNames |-> IF n \in strict THEN Strict[n] ELSE Loose[n]] :
        strict \in SUBSET ThresholdNames }

\* the thresholds pipeline, or a caller that calls select_genes again, is
\* given: all loose or all strict
GivenThresholds == { Loose, Strict }

\* the result sets of a run of the pipeline: at most one record per gene
PipelineResults ==
    { <<[key |-> G1, recs |-> r], [key |-> G2, recs |-> r2]>> :
        r \in {<< >>, <<Line(Base)>>, <<Line(Strong)>>,
                <<Line(With(Base, 2, <<"1", "2">>))>>},
        r2 \in {<< >>, <<Line(With(Base, 2, S2))>>} }

\* the largest number of times the caller calls select_genes again
MaxCalls == 2

\* ---------------------------------------------- blastp and the cache file

NL == <<"\n">>

RECURSIVE Stdout(_)
\* what blastp prints for the records of one gene: every line ends with a
\* newline
Stdout(recs) ==
    IF recs = << >> THEN << >> ELSE Head(recs) \o NL \o Stdout(Tail(recs))

\* what blastp prints, gene by gene of the reference model, for the
\* files of one configuration
Alignments ==
    { [i \in 1..Len(rs) |-> [key |-> rs[i].key, stdout |-> Stdout(rs[i].recs)]] :
        rs \in PipelineResults }

\* blast_run: blast_res[gene.id] = stdout.split("\n")[:-1] for every gene
blast_run(alignment) ==
    [i \in 1..Len(alignment) |->
        LET lines == Split(alignment[i].stdout, NL)
        IN  [key |-> alignment[i].key, recs |-> SubSeq(lines, 1, Len(lines) - 1)]]

RECURSIVE pickle_dump(_, _)
\* pickle.dump of the dictionary from entry i on: the stream of its keys,
\* each followed by the items of its list
pickle_dump(obj, i) ==
    IF i > Len(obj) THEN << >>
    ELSE <<[op |-> "key", arg |-> obj[i].key]>>
         \o [j \in 1..Len(obj[i].recs) |-> [op |-> "item", arg |-> obj[i].recs[j]]]
         \o pickle_dump(obj, i + 1)

RECURSIVE pickle_load(_, _, _)
\* pickle.load of a stream from position k on: obj is the dictionary
\* rebuilt so far
pickle_load(stream, k, obj) ==
    IF k > Len(stream) THEN obj
    ELSE pickle_load(stream, k + 1,
                     IF stream[k].op = "key"
                     THEN Append(obj, [key |-> stream[k].arg, recs |-> << >>])
                     ELSE [obj EXCEPT ![Len(obj)].recs = Append(@, stream[k].arg)])

NoFile == [exists |-> FALSE, content |-> << >>]

\* save_obj leaving the file as it is
save_obj_nothing(obj, file) == file

\* save_obj(obj, path): the file at path + ".pkl" afterwards
save_obj(obj, file) == [exists |-> TRUE, content |-> pickle_dump(obj, 1)]

\* load_obj(path): the dictionary, or the error of open() when there is
\* no file
load_obj(file) ==
    IF file.exists
    THEN [raised |-> "none", val |-> pickle_load(file.content, 1, << >>)]
    ELSE [raised |-> "FileNotFoundError", val |-> << >>]

\* the cache file before the first run: none, or the one of an earlier
\* alignment
InitialCaches ==
    { NoFile,
      save_obj(<<[key |-> G1, recs |-> <<Line(Strong)>>], [key |-> G2, recs |-> << >>]>>,
               NoFile) }

\* the largest number of times the pipeline is run again
MaxRuns == 1

\* ------------------------------------------------------ reference models

\* the largest number of reactions of the reference model
MaxReactions == 2

\* "(g1 and g2)"
PAREN == <<"(">> \o G1 \o AND \o G2 \o <<")">>

Rules ==
    { << >>, G1, G9, G1 \o OR \o G2, G2 \o OR \o G1, G9 \o OR \o G2, G1 \o AND \o G2,
      PAREN }

RECURSIVE ModelsOf(_)
\* the reference models of n reactions: reaction k has the identifier
\* <<"R", k>>, so the identifiers of a model are distinct, the
\* metabolites 0 (which every reaction has) and k, and is the object k
ModelsOf(n) ==
    IF n = 0 THEN { << >> }
    ELSE { Append(m, [id |-> <<"R", Digits[n + 1]>>, rule |-> r, mets |-> {0, n},
                      obj |-> n]) :
             m \in ModelsOf(n - 1), r \in Rules }

Models == UNION { ModelsOf(n) : n \in 0..MaxReactions }

\* the reference models of the runs of the pipeline
PipelineModels ==
    { m \in Models :
        [k \in 1..Len(m) |-> m[k].rule]
            \in { << >>, <<G1>>, <<G1 \o OR \o G2, G9>>,
                   <<G2 \o OR \o G1, G1>> } }

Ids(list) == [k \in 1..Len(list) |-> Txt(list[k])]

\* the match maps drafting is given: every key (the empty string may be
\* one) is absent or has one of a few lists, the empty list among them, of
\* subject identifiers, which are non-empty texts
MatchMaps ==
    { [k \in keys |-> IF k = G1 THEN l1 ELSE IF k = G2 THEN l2
                      ELSE IF k = PAREN THEN Ids(<<S2>>) ELSE Ids(<<S1>>)] :
        keys \in SUBSET {G1, G2, << >>, PAREN},
        l1 \in {Ids(<<S1>>), Ids(<<S2, S3>>), Ids(<<S1, S1>>), << >>},
        l2 \in {Ids(<<S2, S3>>), Ids(<<S1>>)} }

\* ---------------------------------------------------------- help_treshold

\* def pipeline(ini, blast = True, identity = 50, diff = 30,
\*              e_val = 1e-100, coverage = 20, bit_score = 300)
PipelineParams ==
    <<"ini", "blast", "identity", "diff", "e_val", "coverage", "bit_score">>

PipelineDefaults ==
    [ini |-> << >>, blast |-> Num(1), identity |-> Num(50), diff |-> Num(30),
     e_val |-> Dec(1, -100), coverage |-> Num(20), bit_score |-> Num(300)]

\* Bind with the arguments after ini given to the thresholds from the last
\* parameter backwards, so that the last argument is bit_score
Bind_FromLast(args) ==
    [n \in DOMAIN PipelineDefaults |->
        LET k == CHOOSE j \in 1..Len(PipelineParams) : PipelineParams[j] = n
            shift == Len(PipelineParams) - Len(args)
        IN  IF k = 1 THEN args[1]
            ELSE IF k - shift >= 2 THEN args[k - shift] ELSE PipelineDefaults[n]]

\* the call pipeline(*args): the k-th parameter gets the k-th positional
\* argument, a parameter without argument its default
Bind(args) ==
    [n \in DOMAIN PipelineDefaults |->
        LET k == CHOOSE j \in 1..Len(PipelineParams) : PipelineParams[j] = n
        IN  IF k <= Len(args) THEN args[k] ELSE PipelineDefaults[n]]

\* the genes of a model: the identifiers its rules name
GenesOf(reactions) ==
    UNION { { t \in {Split(reactions[k].rule, OR)[j] :
                        j \in 1..Len(Split(reactions[k].rule, OR))} : t # << >> } :
            k \in 1..Len(reactions) }

\* pipeline(...) as help_treshold calls it: the draft returned, or the
\* exception; call is what the parameters are bound to.  Every step's
\* result is bound as a value before the next step reads it.
pipeline(call, file, alignment, model) ==
    LET Draft(dico) ==
            IF dico.raised # "none"
            THEN [raised |-> dico.raised, reactions |-> << >>]
            ELSE drafting(model, dico.val)
        Filter(got) ==
            IF got.raised # "none"
            THEN [raised |-> got.raised, reactions |-> << >>]
            ELSE CHOOSE d \in { Draft(dico) :
                                  dico \in { select_genes(got.val, call.identity,
                                                          call.diff, call.e_val,
                                                          call.coverage,
                                                          call.bit_score) } } : TRUE
    IN  CHOOSE d \in { Filter(got) :
                         got \in { IF call.blast # Num(0)
                                   THEN [raised |-> "none", val |-> blast_run(alignment)]
                                   ELSE load_obj(file) } } : TRUE

\* range(101)
Sweeps == 101

\* test = 10 * i
SweepStep == 10

INI == <<"i", "n", "i">>

\* a record of full identity and e-value 0, which the thresholds of
\* help_treshold let pass
Perfect ==
    Rec(G1, T300, S1, T300, T300, T300, <<"1", "0", "0", ".", "0">>, T200,
        <<"0", ".", "0">>, T400)

\* the cache files help_treshold's runs load
SweepCaches ==
    { save_obj(<<[key |-> G1, recs |-> <<Line(Perfect)>>],
                 [key |-> G2, recs |-> r2]>>, NoFile) :
        r2 \in { << >>, <<Line(With(With(Perfect, 0, G2), 2, S2))>> } }

\* the reference models of help_treshold's runs
SweepModels ==
    { m \in Models :
        [k \in 1..Len(m) |-> m[k].rule] \in { <<G1>>, <<G1 \o OR \o G2, G9>> } }

\* ---------------------------------------------------- cobra_compatibility

\* s.replace(old, new)
Replace(s, old, new) == Join(Split(s, old), new)

\* "__nn__"
Code(n) == <<"_", "_">> \o n \o <<"_", "_">>

\* cobra_compatibility(reac, side): the identifier returned, or the
\* IndexError of reac[0] on the empty text
cobra_compatibility(reac, side) ==
    IF side
    THEN LET r1 == Replace(reac, Code(<<"4", "6">>), <<".">>)
             r2 == Replace(r1, Code(<<"4", "7">>), <<"/">>)
             r3 == Replace(r2, Code(<<"4", "5">>), <<"-">>)
             r4 == Replace(r3, Code(<<"4", "3">>), <<"+">>)
             r5 == Replace(r4, Code(<<"9", "1">>), <<"[">>)
             r6 == Replace(r5, Code(<<"9", "3">>), <<"]">>)
         IN  [raised |-> "none",
              val    |-> IF Len(r6) >= 2 /\ r6[1] = "_" /\ IsDigit(r6[2])
                         THEN Tail(r6) ELSE r6]
    ELSE LET r1 == Replace(reac, <<"/">>, Code(<<"4", "7">>))
             r2 == Replace(r1, <<".">>, Code(<<"4", "6">>))
             r3 == Replace(r2, <<"-">>, Code(<<"4", "5">>))
             r4 == Replace(r3, <<"+">>, Code(<<"4", "3">>))
             r5 == Replace(r4, <<"[">>, Code(<<"9", "1">>))
             r6 == Replace(r5, <<"]">>, <<"_", "_", "9", "3">>)
         IN  IF r6 = << >> THEN [raised |-> "IndexError", val |-> << >>]
             ELSE [raised |-> "none",
                   val    |-> IF IsDigit(r6[1]) THEN <<"_">> \o r6 ELSE r6]

\* the largest length of a reaction identifier
MaxIdLen == 3

\* a letter, a digit and the six characters cobra_compatibility encodes
IdChars == {"a", "4", ".", "/", "-", "+", "[", "]"}

\* the reaction identifiers: the non-empty texts over IdChars
Identifiers == SeqsUpTo(IdChars, MaxIdLen) \ { << >> }

\* ------------------------------------------------------------ get_clusters

\* liste.index(x): the first position of x (x is in liste)
Index(liste, x) == CHOOSE k \in 1..Len(liste) : liste[k] = x /\ \A j \in 1..(k - 1) : liste[j] # x

RECURSIVE PairsFrom(_, _)
\* lines 161-164 from the p-th x of liste on: x with every item after
\* the first position of x
PairsFrom(liste, p) ==
    IF p > Len(liste) THEN << >>
    ELSE LET z == Index(liste, liste[p])
         IN  [i \in 1..(Len(liste) - z) |-> <<liste[p], liste[z + i]>>]
             \o PairsFrom(liste, p + 1)

RECURSIVE SubFrom_WithLast(_, _, _)
\* get_sub_clusters with range(z, len(liste)): the last item is taken again
SubFrom_WithLast(liste, res, k) ==
    IF k > Len(res) THEN << >>
    ELSE LET y == res[k]
             z == Index(liste, y[Len(y)])
         IN  [i \in 1..(Len(liste) - z + 1) |-> Append(y, liste[z + i - 1])]
             \o SubFrom_WithLast(liste, res, k + 1)

RECURSIVE SubFrom(_, _, _)
\* the loop of lines 176-181 from the k-th y of res on
SubFrom(liste, res, k) ==
    IF k > Len(res) THEN << >>
    ELSE LET y == res[k]
             z == Index(liste, y[Len(y)])
         IN  [i \in 1..(Len(liste) - z) |-> Append(y, liste[z + i])]
             \o SubFrom(liste, res, k + 1)

\* get_sub_clusters as SubFrom_WithLast has it
get_sub_clusters_with_last(liste, res) == SubFrom_WithLast(liste, res, 1)

\* get_sub_clusters(liste, res)
get_sub_clusters(liste, res) == SubFrom(liste, res, 1)

RECURSIVE ClusterLoop(_, _, _, _)
\* the loop of lines 159-168 from turn i (counted from 0) on
ClusterLoop(liste, i, res, final_res) ==
    IF i >= Len(liste) - 1 THEN final_res
    ELSE LET r == IF i = 0 THEN res \o PairsFrom(liste, 1)
                  ELSE get_sub_clusters(liste, res)
         IN  ClusterLoop(liste, i + 1, r, final_res \o r)

\* get_clusters(liste)
get_clusters(liste) == ClusterLoop(liste, 0, << >>, << >>)

RECURSIVE InsertKeys(_, _, _)
\* make_upsetplot, line 127: clusters.insert(0, [key]) for every key
InsertKeys(clusters, keys, k) ==
    IF k > Len(keys) THEN clusters
    ELSE InsertKeys(<<<<keys[k]>>>> \o clusters, keys, k + 1)

\* the largest number of organisms
MaxOrganisms == 3

Organisms == {"A", "B", "C", "D"}

\* the lists of distinct organisms (the keys of make_upsetplot's data)
OrganismLists ==
    { l \in SeqsUpTo(Organisms, MaxOrganisms) :
        \A a, b \in 1..Len(l) : a # b => l[a] # l[b] }

\* ----------------------------------------------------------------- state

VARIABLES
    blast_res,    \* the blastp results handed to select_genes
    thresholds,   \* the thresholds of the call of select_genes
    dico_genes,   \* what select_genes returned or raised
    model,        \* the reactions of the reference model
    new_model,    \* what drafting returned or raised, with its metabolites
    saved,        \* the model save_json_model wrote, which pipeline returns
    first,        \* the first call of select_genes and the calls after it
    ncalls,       \* how many times select_genes was called again
    alignment,    \* what blastp prints for the files of the configuration
    cache,        \* the file resBlastp.pkl
    blast,        \* the argument blast of the run of pipeline
    invoked,      \* blastp was run in this run of pipeline
    prev,         \* the run of pipeline before this one
    runs,         \* how many times pipeline was run again
    sweep,        \* help_treshold: the loop counter, the calls and the rows
    conv,         \* cobra_compatibility: an identifier, there and back
    clus,         \* get_clusters: the organisms and the clusters
    pc            \* how far the run has come

runVars == <<alignment, cache, blast, invoked, prev, runs>>

toolVars == <<sweep, conv, clus>>

vars == <<blast_res, thresholds, dico_genes, model, new_model, saved, first, ncalls,
          runVars, toolVars, pc>>

NoDico == [raised |-> "none", val |-> EmptyDict]

NoDraft == [raised |-> "none", reactions |-> << >>, metabolites |-> {}]

NoThresholds == [n \in ThresholdNames |-> Num(0)]

NoSaved == [reactions |-> << >>, metabolites |-> {}]

NoCall == [called |-> FALSE, args |-> NoThresholds, result |-> NoDico, between |-> {}]

NoRun == [ran |-> FALSE, blast |-> FALSE, thresholds |-> NoThresholds,
          blast_res |-> << >>, saved |-> NoSaved]

NoSweep == [i |-> 0, calls |-> << >>, listValues |-> << >>, stage |-> "idle"]

NoConv == [reac |-> << >>, cobra |-> << >>, back |-> << >>, stage |-> "idle"]

NoClus == [liste |-> << >>, clusters |-> << >>, stage |-> "idle"]

\* no run of pipeline
RunIdle ==
    /\ alignment = << >>
    /\ cache = NoFile
    /\ blast = FALSE
    /\ invoked = FALSE
    /\ prev = NoRun
    /\ runs = 0

\* none of the functions of graph.py and utils.py is called
ToolsIdle ==
    /\ sweep = NoSweep
    /\ conv = NoConv
    /\ clus = NoClus

\* SelectGenes with dico_genes kept from one call to the next
SelectGenes_Retaining ==
    /\ pc = "start"
    /\ \E t \in Thresholds :
        /\ thresholds' = t
        /\ dico_genes' = SelectLoop(blast_res, 1, 1, dico_genes.val, t.identity, t.diff,
                                    t.e_val, t.coverage, t.bit_score)
    /\ blast_res' = RecordsAfter(blast_res)
    /\ pc' = "selected"
    /\ UNCHANGED <<model, new_model, saved, first, ncalls, runVars, toolVars>>

\* dico_genes = select_genes(blast_res, identity, diff, e_val, coverage, bit_score)
SelectGenes ==
    /\ pc = "start"
    /\ \E t \in Thresholds :
        /\ thresholds' = t
        /\ dico_genes' = select_genes(blast_res, t.identity, t.diff, t.e_val,
                                      t.coverage, t.bit_score)
    /\ blast_res' = RecordsAfter(blast_res)
    /\ pc' = "selected"
    /\ UNCHANGED <<model, new_model, saved, first, ncalls, runVars, toolVars>>

\* the call of select_genes with the thresholds the caller was given
SelectGenesGiven ==
    /\ thresholds' \in GivenThresholds
    /\ SelectGenes

\* the caller calls select_genes once more, with the same result set and
\* thresholds of its choice; first keeps the first call and the thresholds
\* of the calls made after it
Again ==
    /\ pc = "selected"
    /\ ncalls < MaxCalls
    /\ ncalls' = ncalls + 1
    /\ first' = IF first.called
                THEN [first EXCEPT !.between = @ \cup {thresholds}]
                ELSE [called |-> TRUE, args |-> thresholds, result |-> dico_genes,
                      between |-> {}]
    /\ pc' = "start"
    /\ UNCHANGED <<blast_res, thresholds, dico_genes, model, new_model, saved, runVars,
                   toolVars>>

\* new_model = drafting(model, dico_genes, modelName)
Drafting ==
    /\ pc = "selected"
    /\ dico_genes.raised = "none"
    /\ LET d == drafting(model, dico_genes.val)
       IN  /\ new_model' = [raised      |-> d.raised,
                            reactions   |-> d.reactions,
                            metabolites |-> MetabolitesOf(d.reactions)]
           /\ model' = SetRules(model, d.reactions)
    /\ pc' = "drafted"
    /\ UNCHANGED <<blast_res, thresholds, dico_genes, saved, first, ncalls, runVars,
                   toolVars>>

\* new_model.add_metabolites(model.metabolites)
AddMetabolites ==
    /\ pc = "drafted"
    /\ new_model.raised = "none"
    /\ new_model' = [new_model EXCEPT
                       !.metabolites = add_metabolites(@, MetabolitesOf(model))]
    /\ pc' = "completed"
    /\ UNCHANGED <<blast_res, thresholds, dico_genes, model, saved, first, ncalls, runVars,
                   toolVars>>

\* cobra.io.save_json_model(new_model, ...) and, the statistics printed,
\* return new_model
SaveModel ==
    /\ pc = "completed"
    /\ saved' = [reactions |-> new_model.reactions, metabolites |-> new_model.metabolites]
    /\ pc' = "saved"
    /\ UNCHANGED <<blast_res, thresholds, dico_genes, model, new_model, first, ncalls,
                   runVars, toolVars>>

\* select_genes on its own
InitFilter ==
    /\ blast_res \in ResultSets
    /\ thresholds = NoThresholds
    /\ dico_genes = NoDico
    /\ model = << >>
    /\ new_model = NoDraft
    /\ saved = NoSaved
    /\ first = NoCall
    /\ ncalls = 0
    /\ RunIdle
    /\ ToolsIdle
    /\ pc = "start"

NextFilter == SelectGenes

SpecFilter == InitFilter /\ [][NextFilter]_vars

\* select_genes called several times with the same result set
NextCalls == SelectGenesGiven \/ Again

SpecCalls == InitFilter /\ [][NextCalls]_vars

\* drafting on its own, given a reference model and a match map
InitDraft ==
    /\ blast_res = << >>
    /\ thresholds = NoThresholds
    /\ dico_genes \in { [raised |-> "none", val |-> d] : d \in MatchMaps }
    /\ model \in Models
    /\ new_model = NoDraft
    /\ saved = NoSaved
    /\ first = NoCall
    /\ ncalls = 0
    /\ RunIdle
    /\ ToolsIdle
    /\ pc = "selected"

NextDraft == Drafting

SpecDraft == InitDraft /\ [][NextDraft]_vars

\* blast_res = blast_run(...); save_obj(blast_res, WDsub + "resBlastp")
BlastRun ==
    /\ pc = "begin"
    /\ blast
    /\ blast_res' = blast_run(alignment)
    /\ cache' = save_obj(blast_res', cache)
    /\ invoked' = TRUE
    /\ pc' = "start"
    /\ UNCHANGED <<thresholds, dico_genes, model, new_model, saved, first, ncalls,
                   alignment, blast, prev, runs, toolVars>>

\* blast_res = load_obj(WDsub + "resBlastp"): without the file the run
\* ends with the error of open()
LoadObj ==
    /\ pc = "begin"
    /\ ~blast
    /\ LET got == load_obj(cache)
       IN  IF got.raised = "none"
           THEN blast_res' = got.val /\ pc' = "start"
           ELSE blast_res' = blast_res /\ pc' = "failed"
    /\ UNCHANGED <<thresholds, dico_genes, model, new_model, saved, first, ncalls,
                   runVars, toolVars>>

\* pipeline is called once more for the same configuration file: prev
\* keeps what the run that is over was called with, filtered and saved
NextRun ==
    /\ pc = "saved"
    /\ runs < MaxRuns
    /\ runs' = runs + 1
    /\ prev' = [ran |-> TRUE, blast |-> blast, thresholds |-> thresholds,
                blast_res |-> blast_res, saved |-> saved]
    /\ blast' \in BOOLEAN
    /\ invoked' = FALSE
    /\ blast_res' = << >>
    /\ thresholds' = NoThresholds
    /\ dico_genes' = NoDico
    /\ new_model' = NoDraft
    /\ pc' = "begin"
    /\ UNCHANGED <<model, saved, first, ncalls, alignment, cache, toolVars>>

\* pipeline: the reference model is the one read_sbml_model read, the
\* cache file is there or not
Init ==
    /\ blast_res = << >>
    /\ thresholds = NoThresholds
    /\ dico_genes = NoDico
    /\ model \in PipelineModels
    /\ new_model = NoDraft
    /\ saved = NoSaved
    /\ first = NoCall
    /\ ncalls = 0
    /\ alignment \in Alignments
    /\ cache \in InitialCaches
    /\ blast \in BOOLEAN
    /\ invoked = FALSE
    /\ prev = NoRun
    /\ runs = 0
    /\ ToolsIdle
    /\ pc = "begin"

Next ==
    \/ BlastRun
    \/ LoadObj
    \/ SelectGenesGiven
    \/ Drafting
    \/ AddMetabolites
    \/ SaveModel
    \/ NextRun

Spec == Init /\ [][Next]_vars

\* help_treshold: one turn of the loop of lines 200-204; calls keeps what
\* the parameters of every call of pipeline were bound to
HelpStep ==
    /\ pc = "sweep"
    /\ sweep.stage = "loop"
    /\ sweep.i < Sweeps
    /\ \E call \in { Bind(<<INI, Num(0), Num(100), Num(1), Num(0),
                              Num(SweepStep * sweep.i)>>) } :
       \E draft \in { pipeline(call, cache, alignment, model) } :
          IF draft.raised # "none"
          THEN sweep' = [sweep EXCEPT !.stage = "failed"]
          ELSE sweep' = [sweep EXCEPT
                           !.i = @ + 1,
                           !.calls = Append(@, call),
                           !.listValues =
                               Append(@, <<SweepStep * sweep.i,
                                           Cardinality(GenesOf(draft.reactions)),
                                           Len(draft.reactions)>>)]
    /\ UNCHANGED <<blast_res, thresholds, dico_genes, model, new_model, saved, first,
                   ncalls, runVars, conv, clus, pc>>

\* help_treshold, lines 205-206: the header row put first, the file written
HelpWrite ==
    /\ pc = "sweep"
    /\ sweep.stage = "loop"
    /\ sweep.i = Sweeps
    /\ sweep' = [sweep EXCEPT
                   !.listValues = <<<<"Bit_Score", "Nb genes", "Nb reactions">>>> \o @,
                   !.stage = "written"]
    /\ UNCHANGED <<blast_res, thresholds, dico_genes, model, new_model, saved, first,
                   ncalls, runVars, conv, clus, pc>>

\* help_treshold(WD, ini) for a configuration whose cache file is there
InitSweep ==
    /\ blast_res = << >>
    /\ thresholds = NoThresholds
    /\ dico_genes = NoDico
    /\ model \in SweepModels
    /\ new_model = NoDraft
    /\ saved = NoSaved
    /\ first = NoCall
    /\ ncalls = 0
    /\ alignment = << >>
    /\ cache \in SweepCaches
    /\ blast = FALSE
    /\ invoked = FALSE
    /\ prev = NoRun
    /\ runs = 0
    /\ sweep = [NoSweep EXCEPT !.stage = "loop"]
    /\ conv = NoConv
    /\ clus = NoClus
    /\ pc = "sweep"

NextSweep == HelpStep \/ HelpWrite

SpecSweep == InitSweep /\ [][NextSweep]_vars

\* cobra_compatibility(reac, False)
ToCobra ==
    /\ pc = "convert"
    /\ conv.stage = "given"
    /\ LET r == cobra_compatibility(conv.reac, FALSE)
       IN  conv' = IF r.raised = "none"
                   THEN [conv EXCEPT !.cobra = r.val, !.stage = "cobra"]
                   ELSE [conv EXCEPT !.stage = r.raised]
    /\ UNCHANGED <<blast_res, thresholds, dico_genes, model, new_model, saved, first,
                   ncalls, runVars, sweep, clus, pc>>

\* cobra_compatibility(reac, True) on what the first call returned
ToReadable ==
    /\ pc = "convert"
    /\ conv.stage = "cobra"
    /\ LET r == cobra_compatibility(conv.cobra, TRUE)
       IN  conv' = IF r.raised = "none"
                   THEN [conv EXCEPT !.back = r.val, !.stage = "back"]
                   ELSE [conv EXCEPT !.stage = r.raised]
    /\ UNCHANGED <<blast_res, thresholds, dico_genes, model, new_model, saved, first,
                   ncalls, runVars, sweep, clus, pc>>

\* cobra_compatibility called on a reaction identifier
InitConv ==
    /\ blast_res = << >>
    /\ thresholds = NoThresholds
    /\ dico_genes = NoDico
    /\ model = << >>
    /\ new_model = NoDraft
    /\ saved = NoSaved
    /\ first = NoCall
    /\ ncalls = 0
    /\ RunIdle
    /\ sweep = NoSweep
    /\ conv \in { [NoConv EXCEPT !.reac = r, !.stage = "given"] : r \in Identifiers }
    /\ clus = NoClus
    /\ pc = "convert"

NextConv == ToCobra \/ ToReadable

SpecConv == InitConv /\ [][NextConv]_vars

\* clusters = get_clusters(list(data.keys()))
GetClusters ==
    /\ pc = "cluster"
    /\ clus.stage = "given"
    /\ clus' = [clus EXCEPT !.clusters = get_clusters(clus.liste), !.stage = "clustered"]
    /\ UNCHANGED <<blast_res, thresholds, dico_genes, model, new_model, saved, first,
                   ncalls, runVars, sweep, conv, pc>>

\* [clusters.insert(0, [key]) for key in data.keys()]
AddSingletons ==
    /\ pc = "cluster"
    /\ clus.stage = "clustered"
    /\ clus' = [clus EXCEPT !.clusters = InsertKeys(@, clus.liste, 1), !.stage = "complete"]
    /\ UNCHANGED <<blast_res, thresholds, dico_genes, model, new_model, saved, first,
                   ncalls, runVars, sweep, conv, pc>>

\* make_upsetplot's clusters for the organisms of data
InitClus ==
    /\ blast_res = << >>
    /\ thresholds = NoThresholds
    /\ dico_genes = NoDico
    /\ model = << >>
    /\ new_model = NoDraft
    /\ saved = NoSaved
    /\ first = NoCall
    /\ ncalls = 0
    /\ RunIdle
    /\ sweep = NoSweep
    /\ conv = NoConv
    /\ clus \in { [NoClus EXCEPT !.liste = l, !.stage = "given"] : l \in OrganismLists }
    /\ pc = "cluster"

NextClus == GetClusters \/ AddSingletons

SpecClus == InitClus /\ [][NextClus]_vars

\* ------------------------------------------------ properties: select_genes

\* the five threshold predicates of a record whose required fields are
\* all numbers, written without division
PassesAll(res, t) ==
    LET spl    == Convert(res)
        at(i)  == spl[i + 1].v
        isnum(i) == i + 1 <= Len(spl) /\ spl[i + 1].num
    IN  /\ \A i \in Required : isnum(i)
        /\ Leq(t.identity, at(6))
        /\ Leq(Mul(at(1), Sub(Num(100), t.diff)), Mul(Num(100), at(3)))
        /\ Leq(Mul(Num(100), at(3)), Mul(at(1), Add(Num(100), t.diff)))
        /\ Leq(Mul(t.coverage, at(1)), Mul(Num(100), at(4)))
        /\ Leq(t.bit_score, at(9))
        /\ Leq(at(8), t.e_val)

\* the subject identifier field of a record
Subject(res) == Convert(res)[3]

\* what a call lists under a key: nothing when the key is absent or the
\* call raised
Listed(result, key) ==
    IF result.raised = "none" /\ key \in DOMAIN result.val
    THEN result.val[key]
    ELSE << >>

Range(q) == { q[k] : k \in 1..Len(q) }

RECURSIVE IsSubList(_, _)
\* a is b with some items left out
IsSubList(a, b) ==
    IF a = << >> THEN TRUE
    ELSE IF b = << >> THEN FALSE
    ELSE IF Head(a) = Head(b) THEN IsSubList(Tail(a), Tail(b))
    ELSE IsSubList(a, Tail(b))

FieldCount(res) == Len(Split(res, <<",">>))

\* ten fields, the required ones all numbers
WellParsed(res) ==
    /\ FieldCount(res) = 10
    /\ \A i \in Required : Convert(res)[i + 1].num

\* ten fields, a required one not a number
NonNumericRequired(res) == FieldCount(res) = 10 /\ ~WellParsed(res)

RECURSIVE KeepParsed(_)
KeepParsed(recs) ==
    IF recs = << >> THEN << >>
    ELSE (IF WellParsed(Head(recs)) THEN <<Head(recs)>> ELSE << >>)
         \o KeepParsed(Tail(recs))

\* the result set without the records that are not well parsed
OnlyParsed(rs) == [i \in 1..Len(rs) |-> [rs[i] EXCEPT !.recs = KeepParsed(@)]]

AllRecords(rs) == UNION { Range(rs[i].recs) : i \in 1..Len(rs) }

CallOf(rs, t) ==
    select_genes(rs, t.identity, t.diff, t.e_val, t.coverage, t.bit_score)

\* C1 (as claimed): for every result set and all thresholds, select_genes
\* lists the subject identifier of a record under the record's reference
\* gene if and only if the record satisfies all five threshold predicates.
C1_ListedIffAllFive ==
    pc = "selected" =>
        \A i \in 1..Len(blast_res) :
            LET recs == blast_res[i].recs
                got  == Listed(dico_genes, blast_res[i].key)
            IN  /\ \A j \in 1..Len(recs) :
                      PassesAll(recs[j], thresholds) => Subject(recs[j]) \in Range(got)
                /\ \A x \in Range(got) :
                      \E j \in 1..Len(recs) :
                          PassesAll(recs[j], thresholds) /\ Subject(recs[j]) = x

\* what remains of C1 when the exceptions are set aside: a call that
\* returns lists exactly the records that satisfy the five predicates
ReturnedListsIffAllFive == dico_genes.raised = "none" => C1_ListedIffAllFive

\* C2 (as claimed): a record with a required field that is not a number
\* is silently excluded: the call returns, and returns what it returns
\* for the result set without such records.
C2_NonNumericExcluded ==
    (pc = "selected" /\ \A r \in AllRecords(blast_res) : FieldCount(r) = 10) =>
        dico_genes = CallOf(OnlyParsed(blast_res), thresholds)

\* C3 (as claimed): a record whose field count is not ten is tolerated:
\* the call returns, and returns what it returns for the result set
\* without such records.
C3_WrongCountTolerated ==
    (pc = "selected"
       /\ \A r \in AllRecords(blast_res) : WellParsed(r) \/ FieldCount(r) # 10) =>
        dico_genes = CallOf(OnlyParsed(blast_res), thresholds)

\* the thresholds with one loose value made strict
Tightenings(t) ==
    { [t EXCEPT ![n] = Strict[n]] : n \in {n \in ThresholdNames : t[n] = Loose[n]} }

\* C7 (as claimed): tightening one threshold, the other four and the
\* result set unchanged, never adds an entry: every list of the new call
\* is a sub-list of the list of the old call.
C7_TighteningNeverAdds ==
    pc = "selected" =>
        \A t2 \in Tightenings(thresholds) :
            \A i \in 1..Len(blast_res) :
                IsSubList(Listed(CallOf(blast_res, t2), blast_res[i].key),
                          Listed(dico_genes, blast_res[i].key))

\* what remains of C7 when the exceptions are set aside: of two calls that
\* both return, the tightened one lists a sub-list
ReturnedTighteningNeverAdds ==
    (pc = "selected" /\ dico_genes.raised = "none") =>
        \A t2 \in Tightenings(thresholds) :
            CallOf(blast_res, t2).raised = "none" =>
                \A i \in 1..Len(blast_res) :
                    IsSubList(Listed(CallOf(blast_res, t2), blast_res[i].key),
                              Listed(dico_genes, blast_res[i].key))

\* C8: the map select_genes returns has no key with an empty list; a
\* gene without a passing record (its record list may be empty) is not a
\* key of the map.
C8_NoEmptyList ==
    (pc = "selected" /\ dico_genes.raised = "none") =>
        /\ \A k \in DOMAIN dico_genes.val : Len(dico_genes.val[k]) >= 1
        /\ \A i \in 1..Len(blast_res) :
              (\A r \in Range(blast_res[i].recs) : ~PassesAll(r, thresholds))
                  => blast_res[i].key \notin DOMAIN dico_genes.val

\* a call that returned a map with the second gene only: the first gene
\* has records, none of which passes
C8_Witness ==
    /\ pc = "selected" /\ dico_genes.raised = "none"
    /\ DOMAIN dico_genes.val = {G2}
    /\ blast_res[1].recs # << >>

\* ---------------------------------------------------- properties: drafting

Tokens(rule) == Split(rule, OR)

\* the match list of a token, empty for a token that is no key
MatchesOf(dico, token) == IF token \in DOMAIN dico THEN dico[token] ELSE << >>

RECURSIVE Flatten(_, _)
\* the match lists of the tokens one after the other, in token order
Flatten(tokens, dico) ==
    IF tokens = << >> THEN << >>
    ELSE Flatten(SubSeq(tokens, 1, Len(tokens) - 1), dico)
         \o MatchesOf(dico, tokens[Len(tokens)])

\* the identifiers of the match lists of the rule's tokens joined by " or "
Concatenation(rule, dico) ==
    LET ids == Flatten(Tokens(rule), dico)
    IN  Join([k \in 1..Len(ids) |-> ids[k].txt], OR)

DraftIds == { new_model.reactions[k].id : k \in 1..Len(new_model.reactions) }

\* a token of the rule has a non-empty match list
Survives(rule, dico) ==
    \E token \in Range(Tokens(rule)) : MatchesOf(dico, token) # << >>

RECURSIVE SurvivorIds(_, _)
\* the identifiers of the surviving reactions, in the order of the model
SurvivorIds(reactions, dico) ==
    IF reactions = << >> THEN << >>
    ELSE (IF Survives(Head(reactions).rule, dico)
          THEN <<Head(reactions).id>> ELSE << >>)
         \o SurvivorIds(Tail(reactions), dico)

\* C4: every reaction of the model drafting returns has a non-empty rule.
C4_KeptRulesNonEmpty ==
    (pc = "drafted" /\ new_model.raised = "none") =>
        \A k \in 1..Len(new_model.reactions) : new_model.reactions[k].rule # << >>

\* a draft that kept a reaction and dropped another
C4_Witness ==
    /\ pc = "drafted" /\ new_model.raised = "none"
    /\ Len(new_model.reactions) >= 1
    /\ Len(new_model.reactions) < Len(model)

\* C5 (as claimed): a reference reaction with the empty rule is in no
\* draft, whatever the match map, the empty string being a key or not.
C5_EmptyRuleNeverDrafted ==
    pc = "drafted" =>
        \A i \in 1..Len(model) : model[i].rule = << >> => model[i].id \notin DraftIds

\* C6: the rule drafting writes for a reaction is the " or " join of the
\* match lists of the rule's tokens, in token order and, within a token,
\* in the order of the list; tokens that are no key contribute nothing.
C6_RuleIsConcatenation ==
    pc = "drafted" =>
        \A i \in 1..Len(model) : \A k \in 1..Len(new_model.reactions) :
            new_model.reactions[k].id = model[i].id
                => new_model.reactions[k].rule = Concatenation(model[i].rule, dico_genes.val)

\* rule "g1 or g2" with {g1: [s1], g2: [s2, s3]} drafted as "s1 or s2 or s3"
C6_Witness ==
    /\ pc = "drafted"
    /\ G1 \in DOMAIN dico_genes.val /\ G2 \in DOMAIN dico_genes.val
    /\ dico_genes.val[G1] = Ids(<<S1>>) /\ dico_genes.val[G2] = Ids(<<S2, S3>>)
    /\ \E i \in 1..Len(model) : \E k \in 1..Len(new_model.reactions) :
          /\ model[i].rule = <<"g", "1", " ", "o", "r", " ", "g", "2">>
          /\ new_model.reactions[k].id = model[i].id
          /\ new_model.reactions[k].rule =
                <<"s", "1", " ", "o", "r", " ", "s", "2", " ", "o", "r", " ", "s", "3">>

\* C9: a reaction whose tokens are all absent from the match map is
\* dropped, and no error leaves drafting because of an absent token.
C9_AbsentTokensDropped ==
    pc = "drafted" =>
        /\ new_model.raised # "KeyError"
        /\ \A i \in 1..Len(model) :
              (\A token \in Range(Tokens(model[i].rule)) : token \notin DOMAIN dico_genes.val)
                  => model[i].id \notin DraftIds

\* a draft without a reaction whose only token, g9, is no key of a
\* non-empty match map, beside a reaction that was kept
C9_Witness ==
    /\ pc = "drafted" /\ new_model.raised = "none"
    /\ dico_genes.val # EmptyDict
    /\ Len(new_model.reactions) >= 1
    /\ \E i \in 1..Len(model) : model[i].rule = G9 /\ model[i].id \notin DraftIds

\* C10: the draft holds exactly the reactions with a token that has a
\* non-empty match list, once each, under their identifiers and in the
\* order of the reference model; its size is the reference size minus
\* the number of reactions without a surviving gene.
C10_KeepsExactlySurvivors ==
    pc = "drafted" =>
        /\ new_model.raised = "none"
        /\ [k \in 1..Len(new_model.reactions) |-> new_model.reactions[k].id]
              = SurvivorIds(model, dico_genes.val)
        /\ Len(new_model.reactions) =
              Len(model) - Cardinality({i \in 1..Len(model) :
                                           ~Survives(model[i].rule, dico_genes.val)})

\* the only reaction has the rule "g9", g9 has no match: the draft is
\* one reaction smaller than the reference
C10_Witness ==
    /\ pc = "drafted" /\ new_model.raised = "none"
    /\ Len(model) = 1 /\ model[1].rule = G9
    /\ G9 \notin DOMAIN dico_genes.val /\ dico_genes.val # EmptyDict
    /\ Len(new_model.reactions) = Len(model) - 1

\* ----------------------- properties: duplicates, side effects, pipeline

RECURSIVE SumLens(_, _)
\* the lengths of the match lists of the tokens, added up
SumLens(tokens, dico) ==
    IF tokens = << >> THEN 0
    ELSE Len(MatchesOf(dico, Head(tokens))) + SumLens(Tail(tokens), dico)

\* how many times x occurs in q
Occurrences(q, x) == Cardinality({ k \in 1..Len(q) : q[k] = x })

RECURSIVE SumOccurrences(_, _, _)
\* how many times the identifier x occurs in the match lists of the tokens
SumOccurrences(tokens, dico, x) ==
    IF tokens = << >> THEN 0
    ELSE Occurrences(MatchesOf(dico, Head(tokens)), Txt(x))
         + SumOccurrences(Tail(tokens), dico, x)

\* C11: drafting does not de-duplicate: the new rule of a kept reaction
\* has as many identifiers as the match lists of the rule's tokens have
\* entries together, and every identifier occurs in it once per occurrence
\* in those lists.
C11_NoDeduplication ==
    pc = "drafted" =>
        \A i \in 1..Len(model) : \A k \in 1..Len(new_model.reactions) :
            new_model.reactions[k].id = model[i].id =>
                LET ids    == Split(new_model.reactions[k].rule, OR)
                    tokens == Tokens(model[i].rule)
                IN  /\ Len(ids) = SumLens(tokens, dico_genes.val)
                    /\ \A x \in Range(ids) :
                          Occurrences(ids, x) = SumOccurrences(tokens, dico_genes.val, x)

\* rule "g1 or g2" with {g1: [s1], g2: [s1]} drafted as "s1 or s1", next
\* to a reaction whose rule has two tokens as well
C11_Witness ==
    /\ pc = "drafted"
    /\ G1 \in DOMAIN dico_genes.val /\ G2 \in DOMAIN dico_genes.val
    /\ dico_genes.val[G1] = Ids(<<S1>>) /\ dico_genes.val[G2] = Ids(<<S1>>)
    /\ \E i \in 1..Len(model) : \E k \in 1..Len(new_model.reactions) :
          /\ model[i].rule = G1 \o OR \o G2
          /\ new_model.reactions[k].id = model[i].id
          /\ new_model.reactions[k].rule = S1 \o OR \o S1

\* C12: drafting leaves the reference model as it was (the same reactions
\* with the same identifiers, metabolites and rules), and no reaction of
\* the draft is an object of the reference model: an assignment to a
\* reaction of the draft is not seen in the reference model.
C12_ReferenceUnchanged ==
    [][pc' = "drafted" =>
         /\ model' = model
         /\ \A k \in 1..Len(new_model'.reactions) : \A i \in 1..Len(model') :
               new_model'.reactions[k].obj # model'[i].obj]_vars

\* a reaction was drafted with a rule that is not the rule its reference
\* reaction has
C12_Witness ==
    /\ pc = "drafted"
    /\ \E i \in 1..Len(model) : \E k \in 1..Len(new_model.reactions) :
          /\ new_model.reactions[k].id = model[i].id
          /\ new_model.reactions[k].rule # model[i].rule
          /\ model[i].rule = G1 \o OR \o G2

\* C13: select_genes has no side effect on its input: the keys of the
\* result set and every record line are after the call what they were
\* before it, also for the records whose fields were converted to numbers.
C13_InputUnchanged == [][blast_res' = blast_res]_vars

\* select_genes returned a match of a record whose fields it converted
C13_Witness ==
    /\ pc = "selected" /\ dico_genes.raised = "none"
    /\ blast_res[1].recs = <<Line(Base), Line(Base)>>
    /\ G1 \in DOMAIN dico_genes.val
    /\ \E f \in Range(Convert(blast_res[1].recs[1])) : f.num

Drafted ==
    LET d == drafting(model, dico_genes.val)
    IN  [reactions |-> d.reactions, metabolites |-> MetabolitesOf(d.reactions)]

\* C15 (as claimed): the model pipeline saves and returns has the content
\* of the model drafting returned.
C15_SavedIsDrafted == pc = "saved" => saved = Drafted

\* C15 (amended): the model pipeline saves and returns has the reactions
\* drafting returned, and their metabolites together with every metabolite
\* of the reference model.
C15_SavedIsDraftedPlusMetabolites ==
    pc = "saved" =>
        /\ saved.reactions = Drafted.reactions
        /\ saved.metabolites = Drafted.metabolites \cup MetabolitesOf(model)

\* a reaction was kept, another dropped, and the saved model has a
\* metabolite that no reaction of it has
C15_Witness ==
    /\ pc = "saved"
    /\ saved.reactions # << >>
    /\ Len(saved.reactions) < Len(model)
    /\ saved.metabolites # MetabolitesOf(saved.reactions)

\* the match map without the keys whose list is empty
WithoutEmpty(dico) == [k \in { x \in DOMAIN dico : dico[x] # << >> } |-> dico[k]]

\* C16: the draft is the one drafting returns for the match map with
\* every key of an empty list taken out: an absent key and a key with an
\* empty list give the same draft.
C16_AbsentLikeEmpty ==
    pc = "drafted" =>
        LET d == drafting(model, WithoutEmpty(dico_genes.val))
        IN  /\ new_model.raised = d.raised
            /\ new_model.reactions = d.reactions

\* g1 has an empty list, the rule "g1 or g2" was kept for the matches of
\* g2 and the rule "g1" was dropped
C16_Witness ==
    /\ pc = "drafted"
    /\ G1 \in DOMAIN dico_genes.val /\ dico_genes.val[G1] = << >>
    /\ G2 \in DOMAIN dico_genes.val
    /\ Len(model) = 2
    /\ model[1].rule = G1 \o OR \o G2 /\ model[2].rule = G1
    /\ DraftIds = {model[1].id}

\* C17: drafting raises nothing, whatever the reference model (its rules
\* are texts) and the match map (its values are lists of identifier
\* texts); a reference model without reactions gives a draft without
\* reactions.
C17_NeverRaises ==
    pc = "drafted" =>
        /\ new_model.raised = "none"
        /\ model = << >> => new_model.reactions = << >>

\* a draft without reactions of a reference model without reactions, the
\* match map having keys
C17_Witness ==
    /\ pc = "drafted" /\ new_model.raised = "none"
    /\ model = << >> /\ new_model.reactions = << >>
    /\ dico_genes.val # EmptyDict

RECURSIVE PassingSubjects(_, _)
\* what select_genes stores for the records that pass, in their order
PassingSubjects(recs, t) ==
    IF recs = << >> THEN << >>
    ELSE (IF PassesAll(Head(recs), t) THEN <<Subject(Head(recs))>> ELSE << >>)
         \o PassingSubjects(Tail(recs), t)

\* C18: in a returned map, the list of a gene has one entry per passing
\* record of that gene's entry of the result set, in the order of the
\* records (a subject passing twice is listed twice), and the keys of the
\* map are keys of the result set, whatever the qseqid of the records.
C18_OneEntryPerPassingRecord ==
    (pc = "selected" /\ dico_genes.raised = "none") =>
        /\ DOMAIN dico_genes.val \subseteq { blast_res[i].key : i \in 1..Len(blast_res) }
        /\ \A i \in 1..Len(blast_res) :
              blast_res[i].key \in DOMAIN dico_genes.val =>
                  dico_genes.val[blast_res[i].key]
                      = PassingSubjects(blast_res[i].recs, thresholds)

\* two passing records of the subject s1 under the key g1, the first with
\* the qseqid g2: g1 lists s1 twice and g2 is no key
C18_Witness ==
    /\ pc = "selected" /\ dico_genes.raised = "none"
    /\ blast_res[1].recs = <<Line(With(Base, 0, G2)), Line(Base)>>
    /\ DOMAIN dico_genes.val = {G1}
    /\ dico_genes.val[G1] = Ids(<<S1, S1>>)

\* C19 (as claimed): every value select_genes stores is the text of the
\* third field of its record, also when the text reads as a number, so
\* drafting joins the identifiers of the map without an error.
C19_SubjectKeptAsText ==
    /\ (pc \in {"selected", "drafted"} /\ dico_genes.raised = "none") =>
          \A i \in 1..Len(blast_res) :
              blast_res[i].key \in DOMAIN dico_genes.val =>
                  \A n \in 1..Len(dico_genes.val[blast_res[i].key]) :
                      \E r \in Range(blast_res[i].recs) :
                          dico_genes.val[blast_res[i].key][n]
                              = Txt(Split(r, <<",">>)[3])
    /\ pc = "drafted" => new_model.raised = "none"

\* C20: drafting splits a rule on " or " only: the rule "g1 and g2" is
\* one token, no key of the map, and its reaction is dropped also when g1
\* and g2 have matches; the rule "(g1 and g2)" is one token, and its
\* reaction is kept, with the matches of that key, exactly when the whole
\* text is a key.
C20_FlatDisjunction ==
    pc = "drafted" =>
        \A i \in 1..Len(model) :
            /\ model[i].rule = G1 \o AND \o G2 => model[i].id \notin DraftIds
            /\ model[i].rule = PAREN =>
                  /\ model[i].id \in DraftIds <=> PAREN \in DOMAIN dico_genes.val
                  /\ \A k \in 1..Len(new_model.reactions) :
                        new_model.reactions[k].id = model[i].id =>
                            new_model.reactions[k].rule
                                = Concatenation(PAREN, [x \in {PAREN} |-> dico_genes.val[PAREN]])

\* g1 and g2 have matches, "(g1 and g2)" is a key: the reaction of the
\* rule "g1 and g2" was dropped, the one of "(g1 and g2)" kept
C20_Witness ==
    /\ pc = "drafted"
    /\ {G1, G2, PAREN} \subseteq DOMAIN dico_genes.val
    /\ dico_genes.val[G1] # << >>
    /\ Len(model) = 2
    /\ model[1].rule = G1 \o AND \o G2 /\ model[2].rule = PAREN
    /\ DraftIds = {model[2].id}

\* ------------------------------------- properties: the cache of pipeline

\* C21: in a run with blast true, blastp is run and its result set is in
\* the cache file before select_genes is called; in a run with blast
\* false, blastp is not run and select_genes is given what the cache file
\* holds; a run with blast false that follows a run with blast true, with
\* the same thresholds, filters the result set of that run and saves the
\* same draft.
C21_CacheBetweenRuns ==
    /\ (blast /\ pc # "begin") =>
          /\ invoked
          /\ load_obj(cache) = [raised |-> "none", val |-> blast_res]
    /\ ~blast => ~invoked
    /\ (~blast /\ pc \notin {"begin", "failed"}) =>
          load_obj(cache) = [raised |-> "none", val |-> blast_res]
    /\ (pc = "saved" /\ prev.ran /\ prev.blast /\ ~blast
            /\ thresholds = prev.thresholds) =>
          /\ blast_res = prev.blast_res
          /\ saved = prev.saved

\* a run with blast false has saved a draft with reactions, after a run
\* with blast true and the same thresholds that replaced the cache file
C21_Witness ==
    /\ pc = "saved" /\ prev.ran /\ prev.blast /\ ~blast
    /\ thresholds = prev.thresholds
    /\ cache \notin InitialCaches
    /\ saved.reactions # << >>
    /\ \E i \in 1..Len(blast_res) : blast_res[i].recs # << >>

\* ------------------------------------------- properties: help_treshold

\* C22 (as claimed): help_treshold builds 101 drafts, for the values 0,
\* 10, ..., 1000, and the first column of every row is the bit-score
\* threshold of the call of pipeline that built the row's draft, the other
\* thresholds being the same in all calls.
C22_FirstColumnIsBitScore ==
    sweep.stage = "written" =>
        /\ Len(sweep.calls) = 101
        /\ Len(sweep.listValues) = 102
        /\ sweep.listValues[1][1] = "Bit_Score"
        /\ \A k \in 1..Len(sweep.calls) :
              /\ sweep.listValues[k + 1][1] = 10 * (k - 1)
              /\ sweep.calls[k].bit_score = Num(sweep.listValues[k + 1][1])
              /\ \A n \in {"identity", "diff", "e_val", "coverage"} :
                    sweep.calls[k][n] = sweep.calls[1][n]

\* ------------------------------------- properties: cobra_compatibility

\* C23 (as claimed): an identifier made of letters, digits and the
\* characters . / - + [ ] converted to the COBRA form and back is the
\* identifier again.
C23_RoundTrip == conv.stage = "back" => conv.back = conv.reac


\* -------------------------------------------- properties: get_clusters

\* how many clusters have exactly the organisms of S
ClustersOf(S) == Cardinality({ k \in 1..Len(clus.clusters) : Range(clus.clusters[k]) = S })

\* C24: for n distinct organisms get_clusters returns 2^n - n - 1
\* clusters (none for n <= 1): every set of 2 to n organisms exactly once,
\* each in the order of the list; with the singletons make_upsetplot
\* puts in front, every non-empty set of organisms is there exactly once.
C24_EveryCombinationOnce ==
    LET n     == Len(clus.liste)
        names == Range(clus.liste)
    IN  /\ clus.stage = "clustered" =>
              /\ Len(clus.clusters) = 2^n - n - 1
              /\ n <= 1 => clus.clusters = << >>
              /\ \A k \in 1..Len(clus.clusters) :
                    /\ Len(clus.clusters[k]) >= 2
                    /\ IsSubList(clus.clusters[k], clus.liste)
              /\ \A S \in SUBSET names : Cardinality(S) >= 2 => ClustersOf(S) = 1
        /\ clus.stage = "complete" =>
              /\ Len(clus.clusters) = 2^n - 1
              /\ \A k \in 1..Len(clus.clusters) : IsSubList(clus.clusters[k], clus.liste)
              /\ \A S \in SUBSET names : S # {} => ClustersOf(S) = 1

\* the seven clusters of three organisms, the triple last
C24_Witness ==
    /\ clus.stage = "complete"
    /\ Len(clus.liste) = 3
    /\ Len(clus.clusters) = 7
    /\ clus.clusters[7] = clus.liste

==========================================================================
